---- MODULE Spec2Model ----
(***************************************************************************)
(* AIMCR review form: risk aggregation and classification                  *)
(* (helper_functions.py), the Streamlit session handlers                   *)
(* (streamlit_app.py) and the draft / submission persistence around them.  *)
(*                                                                         *)
(* Python values are modelled as follows.  A str is a sequence of text     *)
(* chunks: a chunk is either one character that json escapes (a quote, a   *)
(* backslash, a newline, a non-ASCII character) or a run of plain ASCII    *)
(* text.  A list is a sequence, a dict with fixed keys is a record, an int *)
(* is an integer.                                                          *)
(***************************************************************************)
EXTENDS Integers, Sequences, FiniteSets, TLC

(* ---------------------------------------------------------------------- *)
(* Bounds of the exploration                                               *)
(* ---------------------------------------------------------------------- *)
\* largest score handed to get_risk_color
MaxScore == 25
\* calculate_section_risk is applied to lists of at most MaxArts artifacts
MaxArts == 2
\* ... each with at most MaxChecks checks
MaxChecks == 2

(* ---------------------------------------------------------------------- *)
(* Program constants                                                       *)
(* ---------------------------------------------------------------------- *)
\* RISK_LEVELS = {1: "No Risk", ..., 5: "Critical Risk"}
RISK_LEVELS == 1..5

(* ---------------------------------------------------------------------- *)
(* helper_functions.py: pure functions                                     *)
(* ---------------------------------------------------------------------- *)
RECURSIVE sum(_)
sum(s) == IF s = <<>> THEN 0 ELSE s[1] + sum(Tail(s))

max(S) == CHOOSE m \in S : \A x \in S : x <= m

\* The result of a call: what it returned, or the exception it raised.
Returned(total, max_scores) ==
    [raised |-> "none", total |-> total, max_scores |-> max_scores]
Raised(exc) == [raised |-> exc, total |-> 0, max_scores |-> <<>>]

\* calculate_section_risk with the maximum over the artifacts replaced by the
\* first artifact's score.
calculate_section_risk_first(artifacts) ==
    IF artifacts = <<>> THEN Returned(0, <<>>)
    ELSE LET num_checks == Len(artifacts[1].checks)
             short == \E a \in 1..Len(artifacts) :
                          Len(artifacts[a].checks) < num_checks
             max_scores == [i \in 1..num_checks |-> artifacts[1].checks[i].score]
         IN  IF short THEN Raised("IndexError")
             ELSE Returned(sum(max_scores), max_scores)

\* calculate_section_risk without `if not artifacts: return 0, []`:
\* artifacts[0] raises IndexError on the empty list.
calculate_section_risk_unguarded(artifacts) ==
    LET num_checks == Len(artifacts[1].checks)
        short == \E a \in 1..Len(artifacts) :
                     Len(artifacts[a].checks) < num_checks
        max_scores == [i \in 1..num_checks |->
                          max({artifacts[a].checks[i].score :
                                   a \in 1..Len(artifacts)})]
    IN  IF artifacts = <<>> \/ short THEN Raised("IndexError")
        ELSE Returned(sum(max_scores), max_scores)

\* calculate_section_risk with the scores at a position added up instead of
\* their maximum taken.
calculate_section_risk_sum(artifacts) ==
    IF artifacts = <<>> THEN Returned(0, <<>>)
    ELSE LET num_checks == Len(artifacts[1].checks)
             short == \E a \in 1..Len(artifacts) :
                          Len(artifacts[a].checks) < num_checks
             max_scores == [i \in 1..num_checks |->
                               sum([a \in 1..Len(artifacts) |->
                                       artifacts[a].checks[i].score])]
         IN  IF short THEN Raised("IndexError")
             ELSE Returned(sum(max_scores), max_scores)

\* for i in range(num_checks): max(artifact['checks'][i]['score'] ...)
\* raises IndexError as soon as one artifact has no check at position i.
calculate_section_risk(artifacts) ==
    IF artifacts = <<>> THEN Returned(0, <<>>)
    ELSE LET num_checks == Len(artifacts[1].checks)
             short == \E a \in 1..Len(artifacts) :
                          Len(artifacts[a].checks) < num_checks
             max_scores == [i \in 1..num_checks |->
                               max({artifacts[a].checks[i].score :
                                        a \in 1..Len(artifacts)})]
         IN  IF short THEN Raised("IndexError")
             ELSE Returned(sum(max_scores), max_scores)

get_risk_color(score) ==
    IF score >= 21 THEN "red"
    ELSE IF score >= 5 THEN "red"
    ELSE IF score >= 15 THEN "orange"
    ELSE IF score >= 10 THEN "yellow"
    ELSE "green"

(* ---------------------------------------------------------------------- *)
(* json.dump / json.load (helper_functions.py:133, 151, 204)               *)
(*                                                                         *)
(* A file's text is modelled by its syntax tree: an object is a record, an *)
(* array a sequence, a string literal the escaped body between its quotes, *)
(* a number literal the sequence of its digits.  Punctuation and the       *)
(* whitespace of indent=2 carry no information and are left out.           *)
(* ---------------------------------------------------------------------- *)
Quote == "\""
Backslash == "\\"
Newline == "\n"
\* a character outside ASCII (e-acute), written é by ensure_ascii
NonAscii == "U+00E9"

\* the encoder with the backslash's own escape left out
escape_char_no_backslash(c) ==
    IF c = Quote THEN <<Backslash, Quote>>
    ELSE IF c = Newline THEN <<Backslash, "n">>
    ELSE IF c = NonAscii THEN <<Backslash, "u", "00e9">>
    ELSE <<c>>

\* the escapes of json.dump's default ensure_ascii=True encoder
escape_char(c) ==
    IF c = Quote THEN <<Backslash, Quote>>
    ELSE IF c = Backslash THEN <<Backslash, Backslash>>
    ELSE IF c = Newline THEN <<Backslash, "n">>
    ELSE IF c = NonAscii THEN <<Backslash, "u", "00e9">>
    ELSE <<c>>

RECURSIVE encode_str(_)
encode_str(s) ==
    IF s = <<>> THEN <<>> ELSE escape_char(s[1]) \o encode_str(Tail(s))

\* json's string scanner on the body of a literal: fails on a bare quote, a
\* raw control character or an unknown escape
RECURSIVE decode_str(_)
decode_str(b) ==
    IF b = <<>> THEN [ok |-> TRUE, val |-> <<>>]
    ELSE IF b[1] = Quote \/ b[1] = Newline THEN [ok |-> FALSE, val |-> <<>>]
    ELSE IF b[1] # Backslash THEN
        LET r == decode_str(Tail(b))
        IN  [ok |-> r.ok, val |-> <<b[1]>> \o r.val]
    ELSE IF Len(b) < 2 THEN [ok |-> FALSE, val |-> <<>>]
    ELSE IF b[2] \in {Quote, Backslash, "n"} THEN
        LET r == decode_str(SubSeq(b, 3, Len(b)))
            c == IF b[2] = "n" THEN Newline ELSE b[2]
        IN  [ok |-> r.ok, val |-> <<c>> \o r.val]
    ELSE IF b[2] = "u" /\ Len(b) >= 3 /\ b[3] = "00e9" THEN
        LET r == decode_str(SubSeq(b, 4, Len(b)))
        IN  [ok |-> r.ok, val |-> <<NonAscii>> \o r.val]
    ELSE [ok |-> FALSE, val |-> <<>>]

Digits == <<"0", "1", "2", "3", "4", "5", "6", "7", "8", "9">>

\* int.__repr__ of a score
RECURSIVE int_repr(_)
int_repr(n) ==
    IF n < 10 THEN <<Digits[n + 1]>>
    ELSE int_repr(n \div 10) \o <<Digits[(n % 10) + 1]>>

IsDigit(d) == \E k \in 1..10 : Digits[k] = d

DigitValue(d) == (CHOOSE k \in 1..10 : Digits[k] = d) - 1

RECURSIVE parse_int(_)
parse_int(ds) ==
    IF ds = <<>> THEN [ok |-> FALSE, val |-> 0]
    ELSE IF ~IsDigit(ds[Len(ds)]) THEN [ok |-> FALSE, val |-> 0]
    ELSE IF Len(ds) = 1 THEN [ok |-> TRUE, val |-> DigitValue(ds[1])]
    ELSE LET r == parse_int(SubSeq(ds, 1, Len(ds) - 1))
         IN  [ok |-> r.ok, val |-> 10 * r.val + DigitValue(ds[Len(ds)])]

dump_check(c) ==
    [name |-> encode_str(c.name), score |-> int_repr(c.score),
     notes |-> encode_str(c.notes)]

dump_artifact(a) ==
    [name |-> encode_str(a.name),
     checks |-> [i \in 1..Len(a.checks) |-> dump_check(a.checks[i])]]

dump_section(artifacts) ==
    [i \in 1..Len(artifacts) |-> dump_artifact(artifacts[i])]

dump_metadata(m) == [k \in DOMAIN m |-> encode_str(m[k])]

\* json.dump(data, f, indent=2) of the session's review document
json_dump(doc) ==
    [k \in DOMAIN doc |->
        IF k = "metadata" THEN dump_metadata(doc[k])
        ELSE IF k \in {"observations", "recommendation"} THEN encode_str(doc[k])
        ELSE dump_section(doc[k])]

\* the value of an object or array whose members were parsed to results:
\* the parse fails when any member's does
load_members(results) ==
    [ok |-> \A k \in DOMAIN results : results[k].ok,
     val |-> [k \in DOMAIN results |-> results[k].val]]

load_check(t) ==
    load_members([name |-> decode_str(t.name), score |-> parse_int(t.score),
                  notes |-> decode_str(t.notes)])

load_checks(t) == load_members([i \in 1..Len(t) |-> load_check(t[i])])

load_artifact(t) ==
    load_members([name |-> decode_str(t.name), checks |-> load_checks(t.checks)])

load_section(t) == load_members([i \in 1..Len(t) |-> load_artifact(t[i])])

load_metadata(t) == load_members([k \in DOMAIN t |-> decode_str(t[k])])

\* json.load: the document of a text, or JSONDecodeError (ok = FALSE)
json_load(text) ==
    load_members([k \in DOMAIN text |->
        IF k = "metadata" THEN load_metadata(text[k])
        ELSE IF k \in {"observations", "recommendation"} THEN decode_str(text[k])
        ELSE load_section(text[k])])

(* ---------------------------------------------------------------------- *)
(* streamlit_app.py: configuration                                         *)
(* ---------------------------------------------------------------------- *)
SectionKeys == {"third_party_software", "source_code", "datasets_user_files", "models"}

\* the checklist of each section; a check's name is one chunk of plain text
SECTION_CHECKS ==
    [third_party_software |->
        <<<<"Project & Usage Alignment">>,
          <<"Prohibited Use Screening (LC 2.7)">>,
          <<"Restricted Entities Screening (LC 2.5)">>,
          <<"Source / Provenance">>,
          <<"License / Permissions">>,
          <<"Bundled Tools / Dependencies">>>>,
     source_code |->
        <<<<"Project & Usage Alignment">>,
          <<"Prohibited Use Screening (LC 2.7)">>,
          <<"Source / Provenance & Restricted Entities (LC 2.5)">>,
          <<"License / Permissions">>,
          <<"Dependencies / Bundled Components">>,
          <<"Sample Inspection">>>>,
     datasets_user_files |->
        <<<<"Project & Usage Alignment">>,
          <<"Prohibited Use Screening (LC 2.7)">>,
          <<"Restricted Entities Screening (LC 2.5)">>,
          <<"Prompts / Fine-tuning Scripts">>,
          <<"Sample Inspection">>,
          <<"Provenance">>,
          <<"License / Permissions">>>>,
     models |->
        <<<<"Project & Usage Alignment">>,
          <<"Prohibited Use Screening (LC 2.7)">>,
          <<"Source / Provenance & Restricted Entities (LC 2.5)">>,
          <<"License / Permissions">>,
          <<"Training Data Documentation">>,
          <<"Customisation / Fine-tuning">>,
          <<"FLOPS Calculation">>,
          <<"Sample Inspection">>>>]

\* st.session_state.data at session start
EmptyData ==
    [metadata |-> [proposal_title |-> <<>>, principal_investigator |-> <<>>,
                   proposal_date |-> <<>>, reviewer_name |-> <<>>,
                   reviewer_id |-> <<>>, aimcr_date |-> <<>>, project_id |-> <<>>],
     third_party_software |-> <<>>,
     source_code |-> <<>>,
     datasets_user_files |-> <<>>,
     models |-> <<>>,
     observations |-> <<>>,
     recommendation |-> <<>>]

(* ---------------------------------------------------------------------- *)
(* State                                                                   *)
(* ---------------------------------------------------------------------- *)
VARIABLES
    data,           \* st.session_state.data, the review document
    edit_index,     \* st.session_state.edit_index: section key -> position
    drafts,         \* .aimcr_workspace/drafts: file name -> [text, mtime]
    submissions,    \* .aimcr_workspace/submissions: folder -> text of aimcr_data.json
    exports,        \* working directory: folder -> text of aimcr_data.json
    now,            \* wall clock, in seconds of the current day
    git_installed,  \* whether the git executable is on the PATH
    ui,             \* st.success / warning / error / info calls of the last run
    last,           \* the last handler run: its name, the path it saved, its pushes,
                    \* the draft files it unlinked
    score_in,       \* argument of the pending / last get_risk_color call
    color_out,      \* its result ("unset" before the call)
    artifacts_in,   \* argument of the pending / last calculate_section_risk call
    risk_out,       \* its result (raised = "unset" before the call)
    listing,        \* the last get_draft_files call: its directory and result
    writers,        \* the save_draft calls running side by side: position, document
    file_units      \* the text of the draft file they write, unit by unit

session_vars == <<data, edit_index>>
disk_vars == <<drafts, submissions, exports>>
run_vars == <<ui, last>>
call_vars == <<listing, writers, file_units>>
pure_vars == <<score_in, color_out, artifacts_in, risk_out, listing, writers, file_units>>
app_vars == <<data, edit_index, drafts, submissions, exports, now, git_installed, ui, last>>
vars == <<data, edit_index, drafts, submissions, exports, now, git_installed, ui, last,
          score_in, color_out, artifacts_in, risk_out, listing, writers, file_units>>

NoFiles == [n \in {} |-> <<>>]

Idle == [op |-> "none", path |-> <<>>, pushes |-> <<>>, unlinked |-> {}]

\* the session as the script's first run leaves it (streamlit_app.py:43-66)
InitApp ==
    /\ data = EmptyData
    /\ edit_index = [k \in {} |-> 0]
    /\ drafts = NoFiles
    /\ submissions = NoFiles
    /\ exports = NoFiles
    /\ now = 0
    /\ ui = <<>>
    /\ last = Idle

(* ---------------------------------------------------------------------- *)
(* Calls of the pure functions on bounded inputs                           *)
(* ---------------------------------------------------------------------- *)
\* scores used for the aggregator's inputs: lowest, middle, critical
ProbeScores == {1, 3, 5}

ProbeCheck(s) == [name |-> <<"check">>, score |-> s, notes |-> <<>>]

ProbeChecklists ==
    UNION {[1..n -> {ProbeCheck(s) : s \in ProbeScores}] : n \in 0..MaxChecks}

ProbeArtifacts == {[name |-> <<"A">>, checks |-> c] : c \in ProbeChecklists}

ProbeArtifactLists == UNION {[1..n -> ProbeArtifacts] : n \in 0..MaxArts}

NotListed == [called |-> FALSE, exists |-> FALSE, files |-> NoFiles, result |-> <<>>]

\* no call is pending and no save_draft is running
CallsIdle ==
    /\ listing = NotListed
    /\ writers = <<>>
    /\ file_units = <<>>

PureIdle ==
    /\ score_in = 0
    /\ color_out = "unset"
    /\ artifacts_in = <<>>
    /\ risk_out = Raised("unset")
    /\ CallsIdle

\* one call is prepared: a score for the classifier or a list for the aggregator
InitPure ==
    /\ InitApp
    /\ git_installed = TRUE
    /\ \/ score_in \in 0..MaxScore /\ artifacts_in = <<>>
       \/ score_in = 0 /\ artifacts_in \in ProbeArtifactLists
    /\ color_out = "unset"
    /\ risk_out = Raised("unset")
    /\ CallsIdle

CallGetRiskColor ==
    /\ color_out = "unset"
    /\ color_out' = get_risk_color(score_in)
    /\ UNCHANGED <<score_in, artifacts_in, risk_out>>
    /\ UNCHANGED call_vars
    /\ UNCHANGED app_vars

CallCalculateSectionRisk ==
    /\ risk_out.raised = "unset"
    /\ risk_out' = calculate_section_risk(artifacts_in)
    /\ UNCHANGED <<score_in, color_out, artifacts_in>>
    /\ UNCHANGED call_vars
    /\ UNCHANGED app_vars

NextPure == CallGetRiskColor \/ CallCalculateSectionRisk

SpecPure == InitPure /\ [][NextPure]_vars

(* ---------------------------------------------------------------------- *)
(* streamlit_app.py: render_artifact_form and the final review's summary   *)
(* ---------------------------------------------------------------------- *)
\* positions are Python's (from 0); a sequence's first element is at 1
ArtifactCount(d) ==
    Len(d.third_party_software) + Len(d.source_code)
    + Len(d.datasets_user_files) + Len(d.models)

scores_of(artifact) == [i \in 1..Len(artifact.checks) |-> artifact.checks[i].score]

\* "Total Score" of one artifact: the sum of its own scores
artifact_score(artifact) == sum(scores_of(artifact))

\* the artifact's total is shown in red
artifact_critical(artifact) ==
    LET has_critical == \E i \in 1..Len(artifact.checks) : artifact.checks[i].score = 5
    IN  has_critical \/ artifact_score(artifact) >= 21

\* the section's variant with the any(score == 5) gate left out
section_critical_total_only(artifacts) ==
    LET r == calculate_section_risk(artifacts)
    IN  r.raised = "none" /\ r.total >= 21

\* the section's CRITICAL banner, shown by the section page and by the final
\* review (nothing is shown when calculate_section_risk raises)
section_critical(artifacts) ==
    LET r == calculate_section_risk(artifacts)
        has_critical == \E i \in 1..Len(r.max_scores) : r.max_scores[i] = 5
    IN  r.raised = "none" /\ (has_critical \/ r.total >= 21)

\* final review: "CRITICAL RISK DETECTED"
overall_critical(d) ==
    \E k \in SectionKeys : d[k] # <<>> /\ section_critical(d[k])

\* the form's fields: a name, and a score and notes per check of the section
new_artifact(section_key, form) ==
    [name |-> form.name,
     checks |-> [i \in 1..Len(SECTION_CHECKS[section_key]) |->
                    [name |-> SECTION_CHECKS[section_key][i],
                     score |-> form.scores[i],
                     notes |-> form.notes[i]]]]

edit_mode(section_key) == section_key \in DOMAIN edit_index

\* artifacts[st.session_state.edit_index[section_key]] raises IndexError on a
\* position past the list's end, and the form below it is not rendered
form_renders(section_key) ==
    edit_mode(section_key) => edit_index[section_key] < Len(data[section_key])

without_key(d, k) == [x \in DOMAIN d \ {k} |-> d[x]]

\* list.pop() without the position: the last element goes
pop_end(seq, idx) == SubSeq(seq, 1, Len(seq) - 1)

pop(seq, idx) == SubSeq(seq, 1, idx) \o SubSeq(seq, idx + 2, Len(seq))

ClickEdit(section_key, idx) ==
    /\ idx < Len(data[section_key])
    /\ edit_index' = (section_key :> idx) @@ edit_index
    /\ ui' = <<>>
    /\ last' = Idle
    /\ UNCHANGED <<data, drafts, submissions, exports, now, git_installed>>
    /\ UNCHANGED pure_vars

ClickDelete(section_key, idx) ==
    /\ idx < Len(data[section_key])
    /\ data' = [data EXCEPT ![section_key] = pop(@, idx)]
    /\ ui' = <<>>
    /\ last' = Idle
    /\ UNCHANGED <<edit_index, drafts, submissions, exports, now, git_installed>>
    /\ UNCHANGED pure_vars

\* "Save Artifact": replaces the edited artifact, or appends a new one; at most
\* cap artifacts are added to a document
SaveArtifact(section_key, form, cap) ==
    /\ form_renders(section_key)
    /\ IF edit_mode(section_key)
       THEN /\ data' = [data EXCEPT ![section_key][edit_index[section_key] + 1] =
                            new_artifact(section_key, form)]
            /\ edit_index' = without_key(edit_index, section_key)
       ELSE /\ ArtifactCount(data) < cap
            /\ data' = [data EXCEPT ![section_key] =
                            Append(@, new_artifact(section_key, form))]
            /\ UNCHANGED edit_index
    /\ ui' = <<"success">>
    /\ last' = Idle
    /\ UNCHANGED <<drafts, submissions, exports, now, git_installed>>
    /\ UNCHANGED pure_vars

CancelEdit(section_key) ==
    /\ edit_mode(section_key)
    /\ form_renders(section_key)
    /\ edit_index' = without_key(edit_index, section_key)
    /\ ui' = <<>>
    /\ last' = Idle
    /\ UNCHANGED <<data, drafts, submissions, exports, now, git_installed>>
    /\ UNCHANGED pure_vars

(* ---------------------------------------------------------------------- *)
(* helper_functions.py: drafts, submissions, sync                          *)
(*                                                                         *)
(* A file name is a sequence of chunks, so that a glob pattern matches it  *)
(* chunk by chunk.  The runs explored stay within one day: the date part   *)
(* of a name is one fixed chunk, the time part is the clock's second.      *)
(* ---------------------------------------------------------------------- *)
\* the timestamp with the time of day left out
timestamp_date_only(t) == <<"YYYYMMDD">>

\* datetime.now().strftime("%Y%m%d_%H%M%S")
timestamp(t) == <<"YYYYMMDD", "_", ToString(t)>>

\* f"draft_{project_id}_{timestamp}.json" if project_id else f"draft_unnamed_..."
draft_filename(project_id, t) ==
    <<"draft", "_">>
    \o (IF project_id # <<>> THEN project_id ELSE <<"unnamed">>)
    \o <<"_">> \o timestamp(t) \o <<".json">>

\* f"AIMCR-{project_id}-{date_str}" with date_str of "%d-%m-%Y"
folder_name(project_id) == <<"AIMCR", "-">> \o project_id \o <<"-", "DD-MM-YYYY">>

\* open(draft_path, 'w') and json.dump: a file of the same name is overwritten
save_draft(files, doc, project_id, t) ==
    LET draft_path == draft_filename(project_id, t)
    IN  [path |-> draft_path,
         files |-> (draft_path :> [text |-> json_dump(doc), mtime |-> t]) @@ files]

\* the folder's aimcr_data.json; the folder is the returned path
save_final_submission(folders, doc, project_id) ==
    LET submission_path == folder_name(project_id)
    IN  [path |-> submission_path,
         files |-> (submission_path :> json_dump(doc)) @@ folders]

\* create_folder_structure followed by save_to_json
save_to_json(folders, doc, project_id) ==
    LET folder_path == folder_name(project_id)
    IN  [path |-> folder_path,
         files |-> (folder_path :> json_dump(doc)) @@ folders]

None == [is_none |-> TRUE, value |-> <<>>]

\* load_draft that answers a failure with a blank document instead of None
load_draft_blank(files, path, readable) ==
    IF path \in DOMAIN files /\ readable /\ json_load(files[path].text).ok
    THEN [is_none |-> FALSE, value |-> json_load(files[path].text).val]
    ELSE [is_none |-> FALSE, value |-> EmptyData]

\* the parsed document, or None when open() or json.load raises
load_draft(files, path, readable) ==
    IF path \notin DOMAIN files \/ ~readable THEN None
    ELSE LET r == json_load(files[path].text)
         IN  IF r.ok THEN [is_none |-> FALSE, value |-> r.val] ELSE None

\* the files get_draft_files lists: those that json.load parses (every text
\* that parses here is an object, so data.get does not raise)
draft_entries(files) == {n \in DOMAIN files : json_load(files[n].text).ok}

\* drafts[:5] of the listing sorted by modification time, latest first: an
\* entry with fewer than five later-modified entries before it
shown_drafts(files) ==
    LET entries == draft_entries(files)
    IN  {n \in entries :
            Cardinality({m \in entries : files[m].mtime > files[n].mtime}) < 5}

\* a listed draft's summary (helper_functions.py:111-117)
summary(files, n) ==
    [filename |-> n,
     project_id |-> json_load(files[n].text).val.metadata.project_id,
     modified |-> files[n].mtime]

\* sorted(draft_files, key=lambda x: x['modified'], reverse=True): the sort is
\* stable, entries modified in the same second keep the order they came in
RECURSIVE sorted_by_modified(_)
sorted_by_modified(draft_files) ==
    IF draft_files = <<>> THEN <<>>
    ELSE LET x == draft_files[1]
             rest == sorted_by_modified(Tail(draft_files))
             later == Cardinality({i \in 1..Len(rest) : rest[i].modified > x.modified})
         IN  SubSeq(rest, 1, later) \o <<x>> \o SubSeq(rest, later + 1, Len(rest))

\* the listing that gives up at the first file it cannot parse
get_draft_files_strict(exists, files, glob_order) ==
    IF ~exists \/ \E n \in DOMAIN files : ~json_load(files[n].text).ok THEN <<>>
    ELSE sorted_by_modified([i \in 1..Len(glob_order) |-> summary(files, glob_order[i])])

\* get_draft_files: [] without a drafts directory; else the summaries of the
\* files that parse, in glob's order, sorted; a file that raises is skipped
get_draft_files(exists, files, glob_order) ==
    IF ~exists THEN <<>>
    ELSE LET parses(n) == json_load(files[n].text).ok
             parsed == SelectSeq(glob_order, parses)
         IN  sorted_by_modified([i \in 1..Len(parsed) |-> summary(files, parsed[i])])

has_prefix(name, prefix) ==
    Len(name) >= Len(prefix) /\ SubSeq(name, 1, Len(prefix)) = prefix

has_suffix(name, suffix) ==
    Len(name) >= Len(suffix)
    /\ SubSeq(name, Len(name) - Len(suffix) + 1, Len(name)) = suffix

\* the pattern without the project: every draft
glob_every_draft(files, project_id) ==
    {n \in DOMAIN files : has_prefix(n, <<"draft", "_">>) /\ has_suffix(n, <<".json">>)}

\* drafts_dir.glob(f"draft_{project_id}_*.json")
glob_drafts(files, project_id) ==
    LET prefix == <<"draft", "_">> \o project_id \o <<"_">>
    IN  {n \in DOMAIN files :
            /\ Len(n) >= Len(prefix) + 1
            /\ has_prefix(n, prefix)
            /\ has_suffix(n, <<".json">>)}

without_files(files, gone) == [n \in DOMAIN files \ gone |-> files[n]]

\* push_to_github: (True, ...) on "ok"; (False, "Git error: ...") on
\* "CalledProcessError", a failed git add or git commit, whose stderr is bytes.
\* Two exceptions leave the function: FileNotFoundError (no git executable) is
\* not caught, and a failed git status or git push, run with text=True, has a
\* str for stderr, so that e.stderr.decode() raises AttributeError
GitOutcomes ==
    IF git_installed THEN {"ok", "CalledProcessError", "AttributeError"}
    ELSE {"FileNotFoundError"}

\* the push raised instead of returning
push_raised(git) == git \in {"FileNotFoundError", "AttributeError"}

\* a file operation succeeds or raises OSError
IoOutcomes == {"ok", "OSError"}

(* ---------------------------------------------------------------------- *)
(* streamlit_app.py: metadata, draft management, final review              *)
(* ---------------------------------------------------------------------- *)
\* at most MaxFiles files are created in a run
MaxFiles == 2
\* the clock's last second
MaxTime == 1

FileCount ==
    Cardinality(DOMAIN drafts) + Cardinality(DOMAIN submissions)
    + Cardinality(DOMAIN exports)

CanWrite(files, path) == path \in DOMAIN files \/ FileCount < MaxFiles

Ran(op, path, pushes, unlinked) ==
    [op |-> op, path |-> path, pushes |-> pushes, unlinked |-> unlinked]

\* the check of the project id left out
missing_never(project_id) == FALSE

\* `not project_id`
missing(project_id) == project_id = <<>>

\* st.date_input(...).strftime("%Y-%m-%d"): an empty date becomes today's
date_input(value) == IF value = <<>> THEN <<"YYYY-MM-DD">> ELSE value

\* the metadata page with one text input changed
SetMetadata(field, value) ==
    /\ data' = [data EXCEPT !.metadata =
                    [[@ EXCEPT ![field] = value]
                        EXCEPT !.proposal_date = date_input(@),
                               !.aimcr_date = date_input(@)]]
    /\ data' # data
    /\ ui' = <<>>
    /\ last' = Idle
    /\ UNCHANGED <<edit_index, drafts, submissions, exports, now, git_installed>>
    /\ UNCHANGED pure_vars

\* sidebar "Save Draft" with a push that failed tried once more
SidebarSaveDraft_retry(ios) ==
    LET project_id == data.metadata.project_id
        saved == save_draft(drafts, data, project_id, now)
    IN  /\ CanWrite(drafts, saved.path)
        /\ \E io \in ios, git \in GitOutcomes, again \in GitOutcomes :
           IF io = "OSError"
           THEN /\ ui' = <<"error">>
                /\ last' = Ran("sidebar_save_draft", <<>>, <<>>, {})
                /\ UNCHANGED drafts
           ELSE /\ drafts' = saved.files
                /\ last' = Ran("sidebar_save_draft", saved.path,
                               IF git = "CalledProcessError" THEN <<git, again>>
                               ELSE <<git>>, {})
                /\ ui' = IF git = "ok" \/ again = "ok" THEN <<"success">>
                         ELSE IF git = "CalledProcessError" THEN <<"warning">>
                         ELSE <<"error">>
        /\ UNCHANGED <<data, edit_index, submissions, exports, now, git_installed>>
        /\ UNCHANGED pure_vars

\* sidebar "Save Draft"
SidebarSaveDraft(ios) ==
    LET project_id == data.metadata.project_id
        saved == save_draft(drafts, data, project_id, now)
    IN  /\ CanWrite(drafts, saved.path)
        /\ \E io \in ios, git \in GitOutcomes :
           IF io = "OSError"
           THEN /\ ui' = <<"error">>
                /\ last' = Ran("sidebar_save_draft", <<>>, <<>>, {})
                /\ UNCHANGED drafts
           ELSE /\ drafts' = saved.files
                /\ last' = Ran("sidebar_save_draft", saved.path, <<git>>, {})
                /\ ui' = IF git = "ok" THEN <<"success">>
                         ELSE IF git = "CalledProcessError" THEN <<"warning">>
                         ELSE <<"error">>
        /\ UNCHANGED <<data, edit_index, submissions, exports, now, git_installed>>
        /\ UNCHANGED pure_vars

\* final review "Save Draft"
FinalSaveDraft(ios) ==
    LET project_id == data.metadata.project_id
        saved == save_draft(drafts, data, project_id, now)
    IN  /\ IF missing(project_id)
           THEN /\ ui' = <<"error">>
                /\ last' = Ran("final_save_draft", <<>>, <<>>, {})
                /\ UNCHANGED drafts
           ELSE /\ CanWrite(drafts, saved.path)
                /\ \E io \in ios, git \in GitOutcomes :
                   IF io = "OSError"
                   THEN /\ ui' = <<"error">>
                        /\ last' = Ran("final_save_draft", <<>>, <<>>, {})
                        /\ UNCHANGED drafts
                   ELSE /\ drafts' = saved.files
                        /\ last' = Ran("final_save_draft", saved.path, <<git>>, {})
                        /\ ui' = IF git = "ok" THEN <<"success">>
                                 ELSE IF git = "CalledProcessError"
                                      THEN <<"warning", "info">>
                                 ELSE <<"error">>
        /\ UNCHANGED <<data, edit_index, submissions, exports, now, git_installed>>
        /\ UNCHANGED pure_vars

\* final review "Submit Final"; git2 is the outcome of the clean-up's push
SubmitFinal(ios) ==
    LET project_id == data.metadata.project_id
        saved == save_final_submission(submissions, data, project_id)
    IN  /\ IF missing(project_id)
           THEN /\ ui' = <<"error">>
                /\ last' = Ran("submit_final", <<>>, <<>>, {})
                /\ UNCHANGED <<drafts, submissions>>
           ELSE /\ CanWrite(submissions, saved.path)
                /\ \E io \in ios, git \in GitOutcomes, git2 \in GitOutcomes :
                   IF io = "OSError"
                   THEN /\ ui' = <<"error">>
                        /\ last' = Ran("submit_final", <<>>, <<>>, {})
                        /\ UNCHANGED <<drafts, submissions>>
                   ELSE /\ submissions' = saved.files
                        /\ IF git = "ok"
                           THEN /\ ui' = IF push_raised(git2)
                                         THEN <<"success", "info", "error">>
                                         ELSE <<"success", "info">>
                                /\ drafts' = without_files(drafts,
                                                 glob_drafts(drafts, project_id))
                                /\ last' = Ran("submit_final", saved.path, <<git, git2>>,
                                                glob_drafts(drafts, project_id))
                           ELSE /\ ui' = IF git = "CalledProcessError"
                                         THEN <<"warning", "info">>
                                         ELSE <<"error">>
                                /\ last' = Ran("submit_final", saved.path, <<git>>, {})
                                /\ UNCHANGED drafts
        /\ UNCHANGED <<data, edit_index, exports, now, git_installed>>
        /\ UNCHANGED pure_vars

\* final review "Save Local Copy"
SaveLocalCopy(ios) ==
    LET project_id == data.metadata.project_id
        saved == save_to_json(exports, data, project_id)
    IN  /\ IF missing(project_id)
           THEN /\ ui' = <<"error">>
                /\ last' = Ran("save_local_copy", <<>>, <<>>, {})
                /\ UNCHANGED exports
           ELSE /\ CanWrite(exports, saved.path)
                /\ \E io \in ios :
                   IF io = "OSError"
                   THEN /\ ui' = <<"error">>
                        /\ last' = Ran("save_local_copy", <<>>, <<>>, {})
                        /\ UNCHANGED exports
                   ELSE /\ exports' = saved.files
                        /\ ui' = <<"success">>
                        /\ last' = Ran("save_local_copy", saved.path, <<>>, {})
        /\ UNCHANGED <<data, edit_index, drafts, submissions, now, git_installed>>
        /\ UNCHANGED pure_vars

\* sidebar "Load" that starts a blank document when the draft does not load
LoadDraft_clears(ios) ==
    /\ \E path \in shown_drafts(drafts), io \in ios :
        LET loaded_data == load_draft(drafts, path, io = "ok")
        IN  /\ IF ~loaded_data.is_none /\ loaded_data.value # <<>>
               THEN /\ data' = loaded_data.value
                    /\ ui' = <<"success">>
               ELSE /\ ui' = <<"error">>
                    /\ data' = EmptyData
            /\ last' = Ran("load_draft", path, <<>>, {})
    /\ UNCHANGED <<edit_index, drafts, submissions, exports, now, git_installed>>
    /\ UNCHANGED pure_vars

\* sidebar "Load" of a listed draft
LoadDraft(ios) ==
    /\ \E path \in shown_drafts(drafts), io \in ios :
        LET loaded_data == load_draft(drafts, path, io = "ok")
        IN  /\ IF ~loaded_data.is_none /\ loaded_data.value # <<>>
               THEN /\ data' = loaded_data.value
                    /\ ui' = <<"success">>
               ELSE /\ ui' = <<"error">>
                    /\ UNCHANGED data
            /\ last' = Ran("load_draft", path, <<>>, {})
    /\ UNCHANGED <<edit_index, drafts, submissions, exports, now, git_installed>>
    /\ UNCHANGED pure_vars

\* sidebar "Delete" of a listed draft; the push's result is ignored, its
\* exception is caught by nothing and ends the run
DeleteDraft(ios) ==
    /\ \E path \in shown_drafts(drafts), io \in ios, git \in GitOutcomes :
        IF io = "OSError"
        THEN /\ ui' = <<"error">>
             /\ last' = Ran("delete_draft", path, <<>>, {})
             /\ UNCHANGED drafts
        ELSE /\ drafts' = without_files(drafts, {path})
             /\ last' = Ran("delete_draft", path, <<git>>, {path})
             /\ ui' = IF push_raised(git) THEN <<"exception">> ELSE <<"success">>
    /\ UNCHANGED <<data, edit_index, submissions, exports, now, git_installed>>
    /\ UNCHANGED pure_vars

\* a second passes
Tick ==
    /\ now < MaxTime
    /\ now' = now + 1
    /\ UNCHANGED <<data, edit_index, drafts, submissions, exports, git_installed, ui, last>>
    /\ UNCHANGED pure_vars

(* ---------------------------------------------------------------------- *)
(* The review session: metadata, one artifact, drafts and submissions      *)
(* ---------------------------------------------------------------------- *)
\* at most MaxSavedArtifacts artifacts are added to a document that is saved
MaxSavedArtifacts == 1

ProjectIds == {<<>>, <<"P">>}

ProjectIdInputs == {<<"project_id", v>> : v \in ProjectIds}

ReviewerNameInputs == {<<"reviewer_name", v>> : v \in {<<>>, <<"R">>}}

ProposalTitleInputs == {<<"proposal_title", v>> : v \in {<<>>, <<"T">>}}

\* a critical finding whose notes hold every kind of character json escapes
SavedForms(section_key) ==
    LET n == Len(SECTION_CHECKS[section_key])
    IN  {[name |-> <<"lib ", NonAscii>>,
          scores |-> [i \in 1..n |-> IF i = 1 THEN 5 ELSE 1],
          notes |-> [i \in 1..n |->
                        IF i = 1 THEN <<Quote, "see ", Backslash, "n", Newline, NonAscii>>
                        ELSE <<>>]]}

Init ==
    /\ InitApp
    /\ git_installed \in BOOLEAN
    /\ PureIdle

Next ==
    \/ \E input \in ProjectIdInputs \cup ReviewerNameInputs :
           SetMetadata(input[1], input[2])
    \/ \E form \in SavedForms("models") :
           SaveArtifact("models", form, MaxSavedArtifacts)
    \/ SidebarSaveDraft(IoOutcomes)
    \/ FinalSaveDraft(IoOutcomes)
    \/ SubmitFinal(IoOutcomes)
    \/ SaveLocalCopy(IoOutcomes)
    \/ LoadDraft(IoOutcomes)
    \/ DeleteDraft(IoOutcomes)
    \/ Tick

Spec == Init /\ [][Next]_vars

(* ---------------------------------------------------------------------- *)
(* The metadata session: the three identifying fields are filled in or     *)
(* left empty, and the document is saved, submitted or exported            *)
(* ---------------------------------------------------------------------- *)
InitMetadata ==
    /\ InitApp
    /\ git_installed \in BOOLEAN
    /\ PureIdle

NextMetadata ==
    \/ \E input \in ProjectIdInputs \cup ReviewerNameInputs \cup ProposalTitleInputs :
           SetMetadata(input[1], input[2])
    \/ SidebarSaveDraft(IoOutcomes)
    \/ FinalSaveDraft(IoOutcomes)
    \/ SubmitFinal(IoOutcomes)
    \/ SaveLocalCopy(IoOutcomes)

SpecMetadata == InitMetadata /\ [][NextMetadata]_vars

(* ---------------------------------------------------------------------- *)
(* The shared workspace: the clone brings the drafts of other sessions     *)
(* (streamlit_app.py:31-40), some of them not written by this program      *)
(* ---------------------------------------------------------------------- *)
\* at most MaxRemote drafts come with the clone
MaxRemote == 3

\* a document of project Q with one model artifact of the given scores
RemoteDocument(scores) ==
    [EmptyData EXCEPT
        !.metadata = [@ EXCEPT !.project_id = <<"Q">>, !.proposal_date = <<"YYYY-MM-DD">>,
                               !.aimcr_date = <<"YYYY-MM-DD">>],
        !.models = <<[name |-> <<"model">>,
                      checks |-> [i \in 1..Len(scores) |->
                                     [name |-> SECTION_CHECKS.models[i],
                                      score |-> scores[i], notes |-> <<>>]]]>>]

\* the texts of the remote drafts: one this program wrote, one whose first
\* score is 9, one whose artifact has a single check, and one that ends
\* inside a string literal
RemoteTexts ==
    [written |-> json_dump(RemoteDocument([i \in 1..8 |-> 2])),
     score9 |-> json_dump(RemoteDocument([i \in 1..8 |-> IF i = 1 THEN 9 ELSE 2])),
     onecheck |-> json_dump(RemoteDocument(<<2>>)),
     cut |-> [json_dump(EmptyData) EXCEPT !.observations = <<Quote>>]]

RemoteName(kind) == <<"draft", "_", "Q", "_", kind, ".json">>

\* the directory with the remote drafts of the given kinds, modified at mt
RemoteDirectory(kinds, mt) ==
    [n \in {RemoteName(k) : k \in kinds} |->
        [text |-> RemoteTexts[n[5]], mtime |-> mt[n[5]]]]

\* the drafts directories a clone or a pull can leave
WorkspaceDrafts ==
    {RemoteDirectory(kinds, mt) :
        kinds \in {K \in SUBSET DOMAIN RemoteTexts : Cardinality(K) <= MaxRemote},
        mt \in [DOMAIN RemoteTexts -> 0..MaxTime]}

Perms(S) ==
    {p \in [1..Cardinality(S) -> S] : \A i, j \in 1..Cardinality(S) : p[i] = p[j] => i = j}

\* a call of get_draft_files; an empty listing of names is that of an empty
\* directory or of none
CallGetDraftFiles ==
    /\ \E exists \in (IF drafts = NoFiles THEN BOOLEAN ELSE {TRUE}),
          glob_order \in Perms(DOMAIN drafts) :
          listing' = [called |-> TRUE, exists |-> exists, files |-> drafts,
                      result |-> get_draft_files(exists, drafts, glob_order)]
    /\ listing' # listing
    /\ UNCHANGED <<score_in, color_out, artifacts_in, risk_out, writers, file_units>>
    /\ UNCHANGED app_vars

\* setup_local_workspace raises nothing: both exceptions are caught
SyncOutcomes ==
    IF git_installed THEN {"ok", "CalledProcessError"} ELSE {"FileNotFoundError"}

\* sidebar "Sync": git pull; a pull that succeeds may bring one more draft
ClickSync ==
    /\ \E sync \in SyncOutcomes :
          IF sync = "ok"
          THEN /\ ui' = <<"success">>
               /\ \/ UNCHANGED drafts
                  \/ /\ FileCount < MaxFiles
                     /\ \E d \in WorkspaceDrafts :
                           /\ Cardinality(DOMAIN d) = 1
                           /\ DOMAIN d \cap DOMAIN drafts = {}
                           /\ drafts' = d @@ drafts
          ELSE /\ ui' = <<"error">>
               /\ UNCHANGED drafts
    /\ last' = Ran("sync", <<>>, <<>>, {})
    /\ UNCHANGED <<data, edit_index, submissions, exports, now, git_installed>>
    /\ UNCHANGED pure_vars

\* the session starts after the clone; the remote drafts are not newer than
\* the clock
InitWorkspace ==
    /\ data = EmptyData
    /\ edit_index = [k \in {} |-> 0]
    /\ drafts \in WorkspaceDrafts
    /\ submissions = NoFiles
    /\ exports = NoFiles
    /\ now = MaxTime
    /\ ui = <<>>
    /\ last = Idle
    /\ git_installed \in BOOLEAN
    /\ PureIdle

NextWorkspace ==
    \/ ClickSync
    \/ LoadDraft(IoOutcomes)
    \/ DeleteDraft(IoOutcomes)
    \/ SidebarSaveDraft(IoOutcomes)
    \/ SubmitFinal(IoOutcomes)

SpecWorkspace == InitWorkspace /\ [][NextWorkspace]_vars

\* the listing alone, over the directories a clone and pulls leave
NextListing == CallGetDraftFiles \/ ClickSync

SpecListing == InitWorkspace /\ [][NextListing]_vars

(* ---------------------------------------------------------------------- *)
(* Two sessions in save_draft at once (helper_functions.py:131-133): both  *)
(* have the same project_id and the same second, hence the same file       *)
(* ---------------------------------------------------------------------- *)
\* a writer's document has at most MaxWriterArtifacts artifacts
MaxWriterArtifacts == 2

Writers == {1, 2}

\* the documents the two sessions save
WriterDocuments ==
    {[EmptyData EXCEPT
         !.metadata = [@ EXCEPT !.project_id = <<"P">>],
         !.models = [i \in 1..n |-> new_artifact("models", form)]] :
        n \in 0..MaxWriterArtifacts, form \in SavedForms("models")}

\* the length of a document's text, in units: it grows with every artifact
text_len(doc) == 1 + ArtifactCount(doc)

\* the text json.dump produces for a document, as the units it consists of
text_units(doc) == [i \in 1..text_len(doc) |-> [of |-> doc, at |-> i]]

\* what a file reads as where nothing was written
Nul == [of |-> <<>>, at |-> 0]

\* write(chunk) at offset off of a file: the units there are replaced, a gap
\* before them reads as zeros, what lies behind them stays
write_at(units, off, chunk) ==
    [i \in 1..(IF Len(units) > off + Len(chunk) THEN Len(units) ELSE off + Len(chunk)) |->
        IF i > off /\ i <= off + Len(chunk) THEN chunk[i - off]
        ELSE IF i <= Len(units) THEN units[i]
        ELSE Nul]

\* open(draft_path, 'w'): the file is created or truncated; the writer's own
\* position is 0
Open(w) ==
    /\ writers[w].pc = "ready"
    /\ file_units' = <<>>
    /\ writers' = [writers EXCEPT ![w].pc = "opened"]
    /\ UNCHANGED <<score_in, color_out, artifacts_in, risk_out, listing>>
    /\ UNCHANGED app_vars

\* json.dump(data, f, indent=2): the text goes to the file object, whose
\* buffer passes the first k units on to the file when it fills up
Dump(w) ==
    /\ writers[w].pc = "opened"
    /\ \E k \in 0..(text_len(writers[w].doc) - 1) :
          /\ file_units' = IF k = 0 THEN file_units
                           ELSE write_at(file_units, 0,
                                         SubSeq(text_units(writers[w].doc), 1, k))
          /\ writers' = [writers EXCEPT ![w].pc = "dumped", ![w].written = k]
    /\ UNCHANGED <<score_in, color_out, artifacts_in, risk_out, listing>>
    /\ UNCHANGED app_vars

\* the end of the with block: the rest of the text is written, the file closed
Close(w) ==
    /\ writers[w].pc = "dumped"
    /\ LET text == text_units(writers[w].doc)
           k == writers[w].written
       IN  file_units' = write_at(file_units, k, SubSeq(text, k + 1, Len(text)))
    /\ writers' = [writers EXCEPT ![w].pc = "closed"]
    /\ UNCHANGED <<score_in, color_out, artifacts_in, risk_out, listing>>
    /\ UNCHANGED app_vars

InitConcurrent ==
    /\ InitApp
    /\ git_installed = TRUE
    /\ score_in = 0
    /\ color_out = "unset"
    /\ artifacts_in = <<>>
    /\ risk_out = Raised("unset")
    /\ listing = NotListed
    /\ writers \in [Writers -> {[pc |-> "ready", doc |-> d, written |-> 0] :
                                   d \in WriterDocuments}]
    /\ file_units = <<>>

NextConcurrent == \E w \in Writers : Open(w) \/ Dump(w) \/ Close(w)

SpecConcurrent == InitConcurrent /\ [][NextConcurrent]_vars

(* ---------------------------------------------------------------------- *)
(* The editing session: artifacts are added, edited and deleted            *)
(* ---------------------------------------------------------------------- *)
\* at most MaxArtifacts artifacts are added to the document
MaxArtifacts == 2

\* the rows of scores a reviewer enters: all lo, or lo with one hi at an end
ScoreRows(n) ==
    {[i \in 1..n |-> IF i = p THEN lh[2] ELSE lh[1]] :
        p \in {1, n}, lh \in {<<1, 1>>, <<1, 5>>, <<4, 4>>}}

EditForms(section_key) ==
    LET n == Len(SECTION_CHECKS[section_key])
    IN  {[name |-> <<"A">>, scores |-> row, notes |-> [i \in 1..n |-> <<>>]] :
            row \in ScoreRows(n)}

InitEdit ==
    /\ InitApp
    /\ git_installed = TRUE
    /\ PureIdle

NextEdit ==
    \E section_key \in SectionKeys :
        \/ \E idx \in 0..(MaxArtifacts - 1) : ClickEdit(section_key, idx)
        \/ \E idx \in 0..(MaxArtifacts - 1) : ClickDelete(section_key, idx)
        \/ \E form \in EditForms(section_key) :
               SaveArtifact(section_key, form, MaxArtifacts)
        \/ CancelEdit(section_key)

SpecEdit == InitEdit /\ [][NextEdit]_vars

(* ---------------------------------------------------------------------- *)
(* The projects session: one reviewer works on projects whose identifiers  *)
(* begin alike, saves drafts of them and submits one                       *)
(* ---------------------------------------------------------------------- *)
\* what is typed into the Project ID field: P, P_2 and P2
PrefixedProjectIds == {<<"P">>, <<"P", "_", "2">>, <<"P2">>}

InitProjects ==
    /\ InitApp
    /\ git_installed \in BOOLEAN
    /\ PureIdle

NextProjects ==
    \/ \E project_id \in PrefixedProjectIds : SetMetadata("project_id", project_id)
    \/ SidebarSaveDraft(IoOutcomes)
    \/ SubmitFinal(IoOutcomes)

SpecProjects == InitProjects /\ [][NextProjects]_vars

(* ---------------------------------------------------------------------- *)
(* Properties                                                              *)
(* ---------------------------------------------------------------------- *)
Uniform(artifacts) ==
    \A a, b \in 1..Len(artifacts) :
        Len(artifacts[a].checks) = Len(artifacts[b].checks)

\* s[1] + ... + s[n]
SumUpTo(s, n) ==
    LET acc[k \in 0..n] == IF k = 0 THEN 0 ELSE acc[k - 1] + s[k]
    IN  acc[n]

\* C1: get_risk_color maps every score >= 0 to the tier of the thresholds
\* 21 (red), 15 (orange), 10 (yellow), below 10 (green).
C1_Thresholds ==
    color_out # "unset" =>
        color_out = IF score_in >= 21 THEN "red"
                    ELSE IF score_in >= 15 THEN "orange"
                    ELSE IF score_in >= 10 THEN "yellow"
                    ELSE "green"

\* C2: on a non-empty list of artifacts with checklists of one length N,
\* calculate_section_risk returns N per-check values, each the greatest score
\* at its position (no artifact exceeds it, one artifact attains it), and their
\* sum as the total.
C2_UniformAggregate ==
    (risk_out.raised # "unset" /\ artifacts_in # <<>> /\ Uniform(artifacts_in)) =>
        LET N == Len(artifacts_in[1].checks)
            m == risk_out.max_scores
        IN  /\ risk_out.raised = "none"
            /\ Len(m) = N
            /\ \A i \in 1..N :
                  /\ \A a \in 1..Len(artifacts_in) :
                        artifacts_in[a].checks[i].score <= m[i]
                  /\ \E a \in 1..Len(artifacts_in) :
                        artifacts_in[a].checks[i].score = m[i]
            /\ risk_out.total = SumUpTo(m, N)

\* two artifacts, two checks, the maximum taken from a different artifact at
\* each position
C2_Witness ==
    /\ risk_out.raised = "none"
    /\ Len(artifacts_in) = 2
    /\ Len(artifacts_in[1].checks) = 2
    /\ Len(artifacts_in[2].checks) = 2
    /\ artifacts_in[1].checks[1].score > artifacts_in[2].checks[1].score
    /\ artifacts_in[1].checks[2].score < artifacts_in[2].checks[2].score
    /\ risk_out.total = 10

\* C3: checklists of different lengths make the aggregator fail with a
\* structural error: it neither returns a (truncated) result nor raises
\* IndexError.
C3_FailFast ==
    (risk_out.raised # "unset" /\ ~Uniform(artifacts_in)) =>
        risk_out.raised = "StructuralError"

ArtifactHasFive(artifact) ==
    \E i \in 1..Len(artifact.checks) : artifact.checks[i].score = 5

\* C4: an artifact with a check scored 5 is shown critical, and so are its
\* section and the final review, whatever the totals are.
C4_CriticalGate ==
    \A k \in SectionKeys : \A a \in 1..Len(data[k]) :
        ArtifactHasFive(data[k][a]) =>
            /\ artifact_critical(data[k][a])
            /\ section_critical(data[k])
            /\ overall_critical(data)

\* one artifact with a 5 whose own total and whose section's total are below 21
C4_Witness ==
    \E k \in SectionKeys :
        /\ Len(data[k]) = 2
        /\ ArtifactHasFive(data[k][2])
        /\ ~ArtifactHasFive(data[k][1])
        /\ artifact_score(data[k][2]) < 21
        /\ calculate_section_risk(data[k]).total < 21
        /\ section_critical(data[k])

(* ---------------------------------------------------------------------- *)
(* Properties of the persistence handlers                                  *)
(* ---------------------------------------------------------------------- *)
SaveDraftOps == {"sidebar_save_draft", "final_save_draft"}

FinalReviewOps == {"final_save_draft", "submit_final", "save_local_copy"}

\* the last run was one of ops and wrote its file
Wrote(ops) == last.op \in ops /\ last.path # <<>>

shown(kind) == \E i \in 1..Len(ui) : ui[i] = kind

UnnamedPrefix == <<"draft", "_", "unnamed", "_">>

C7_SyncFailureIsWarning ==
    (Wrote(SaveDraftOps \cup {"submit_final"}) /\ last.pushes[1] # "ok") =>
        /\ shown("warning")
        /\ ~shown("error")
        /\ last.path \in (IF last.op = "submit_final" THEN DOMAIN submissions
                          ELSE DOMAIN drafts)

ProjectOf(file) == json_load(file.text).val.metadata.project_id

\* C9: a Save Draft that writes creates or overwrites one file, holding the
\* saved document, and leaves every other draft as it was; it overwrites only
\* a draft of the same project_id written in the same second, so saves of one
\* project in different seconds give different files, and saves in one second
\* give one file holding the later document.
C9_OverwriteOnlyOnCollision ==
    [][((SidebarSaveDraft(IoOutcomes) \/ FinalSaveDraft(IoOutcomes))
            /\ last'.path # <<>>) =>
          LET p == last'.path
              same == {n \in DOMAIN drafts :
                          /\ ProjectOf(drafts[n]) = data.metadata.project_id
                          /\ drafts[n].mtime = now}
          IN  /\ DOMAIN drafts' = DOMAIN drafts \cup {p}
              /\ json_load(drafts'[p].text) = [ok |-> TRUE, val |-> data]
              /\ \A n \in DOMAIN drafts \ {p} : drafts'[n] = drafts[n]
              /\ p \in DOMAIN drafts => p \in same
              /\ same \subseteq {p}]_vars

\* two drafts of one project, saved in different seconds, hold different
\* documents
C9_Witness ==
    \E n, m \in DOMAIN drafts :
        /\ n # m
        /\ ProjectOf(drafts[n]) = <<"P">>
        /\ ProjectOf(drafts[m]) = <<"P">>
        /\ drafts[n].mtime # drafts[m].mtime
        /\ drafts[n].text # drafts[m].text

\* the file at path of a submission folder, as load_draft's argument
submission_file(path) ==
    [n \in {path} |-> [text |-> submissions[path], mtime |-> now]]

\* C10: load_draft of the file that Save Draft or Submit Final has just written
\* returns a document equal to the session's, whatever its sections, notes and
\* empty fields are.
C10_RoundTrip ==
    /\ Wrote(SaveDraftOps) =>
          load_draft(drafts, last.path, TRUE) = [is_none |-> FALSE, value |-> data]
    /\ Wrote({"submit_final"}) =>
          load_draft(submission_file(last.path), last.path, TRUE)
              = [is_none |-> FALSE, value |-> data]

\* the saved document has an artifact whose notes hold a quote, a backslash, a
\* line break and a non-ASCII character, and empty observations
C10_Witness ==
    /\ Wrote({"final_save_draft"})
    /\ last.path \in DOMAIN drafts
    /\ data.models # <<>>
    /\ \E i \in 1..Len(data.models[1].checks[1].notes) :
           data.models[1].checks[1].notes[i] = Backslash
    /\ data.observations = <<>>
    /\ load_draft(drafts, last.path, TRUE).value.models = data.models

(* ---------------------------------------------------------------------- *)
(* Properties of the aggregator, continued                                 *)
(* ---------------------------------------------------------------------- *)
\* C16: for the empty list of artifacts calculate_section_risk returns the
\* total 0 and the empty list of per-check maxima.
C16_EmptyList ==
    (risk_out.raised # "unset" /\ artifacts_in = <<>>) =>
        /\ risk_out.raised = "none"
        /\ risk_out.total = 0
        /\ risk_out.max_scores = <<>>

\* the aggregator was called on the empty list and returned
C16_Witness ==
    /\ artifacts_in = <<>>
    /\ risk_out.raised = "none"
    /\ risk_out.total = 0

Front(s) == SubSeq(s, 1, Len(s) - 1)

Last(s) == s[Len(s)]

\* C20: for a list whose last artifact was appended to the ones before it
\* (checklists of one length), no per-check maximum and not the total is less
\* than it was before the append; and when every score of the appended
\* artifact is at most the maximum there was at its position, the result is
\* the one there was.
C20_AppendMonotone ==
    (risk_out.raised # "unset" /\ artifacts_in # <<>> /\ Uniform(artifacts_in)) =>
        LET before == calculate_section_risk(Front(artifacts_in))
            added == Last(artifacts_in)
        IN  /\ risk_out.raised = "none"
            /\ before.raised = "none"
            /\ risk_out.total >= before.total
            /\ \A i \in 1..Len(before.max_scores) :
                  risk_out.max_scores[i] >= before.max_scores[i]
            /\ (/\ Len(artifacts_in) > 1
                /\ \A i \in 1..Len(added.checks) :
                      added.checks[i].score <= before.max_scores[i]) =>
                  risk_out = before

\* a low-risk artifact was appended to one with a critical finding, and the
\* result is the one of the critical artifact alone
C20_Witness ==
    /\ risk_out.raised = "none"
    /\ Len(artifacts_in) = 2
    /\ Len(artifacts_in[1].checks) = 2
    /\ Len(artifacts_in[2].checks) = 2
    /\ artifacts_in[1].checks[1].score = 5
    /\ artifacts_in[1].checks[2].score = 3
    /\ artifacts_in[2].checks[1].score = 1
    /\ artifacts_in[2].checks[2].score = 1
    /\ risk_out = Returned(8, <<5, 3>>)

(* ---------------------------------------------------------------------- *)
(* Properties of the artifact lists                                        *)
(* ---------------------------------------------------------------------- *)
\* artifact a holds the form's name and, per check of the section, the
\* check's name with the form's score and notes: nothing of another artifact
FromForm(a, section_key, form) ==
    /\ a.name = form.name
    /\ Len(a.checks) = Len(SECTION_CHECKS[section_key])
    /\ \A i \in 1..Len(a.checks) :
          a.checks[i] = [name |-> SECTION_CHECKS[section_key][i],
                         score |-> form.scores[i], notes |-> form.notes[i]]

OtherSectionsKept(section_key) ==
    \A k \in SectionKeys \ {section_key} : data'[k] = data[k]

WrittenFilePresent ==
    last.path \in (IF last.op = "submit_final" THEN DOMAIN submissions
                   ELSE DOMAIN drafts)

\* C18: a Save Draft or Submit Final writes its file first and then pushes
\* at most once.
C18_OnePushPerAction ==
    last.op \in SaveDraftOps \cup {"submit_final"} =>
        /\ Len(last.pushes) <= 1
        /\ last.pushes # <<>> => (last.path # <<>> /\ WrittenFilePresent)

\* C18, as the code has it: the file is written before the first push; Save
\* Draft pushes once; Submit Final pushes a second time, for the removal of
\* the project's drafts, only when its first push succeeded; no push follows
\* a push that failed.
C18_NoRetryAfterFailure ==
    last.op \in SaveDraftOps \cup {"submit_final"} =>
        /\ Len(last.pushes) <= (IF last.op = "submit_final" THEN 2 ELSE 1)
        /\ \A i \in 1..(Len(last.pushes) - 1) : last.pushes[i] = "ok"
        /\ last.pushes # <<>> => (last.path # <<>> /\ WrittenFilePresent)

\* the final review's Save Draft wrote its file, its one push was rejected
C18_Witness ==
    /\ last.op = "final_save_draft"
    /\ last.pushes = <<"CalledProcessError">>
    /\ WrittenFilePresent
    /\ ui = <<"warning", "info">>

(* ---------------------------------------------------------------------- *)
(* Properties of the draft listing and of Load                             *)
(* ---------------------------------------------------------------------- *)
\* the files of the listed directory that are JSON texts
ValidDrafts(files) == {n \in DOMAIN files : files[n].text # RemoteTexts.cut}

\* C11: get_draft_files returns one summary per file that parses and none for
\* the others, however many of them there are, the most recently modified
\* first; without a drafts directory it returns the empty list.
C11_ListingSkipsCorrupt ==
    listing.called =>
        LET files == listing.files
            result == listing.result
        IN  IF ~listing.exists THEN result = <<>>
            ELSE /\ Len(result) = Cardinality(ValidDrafts(files))
                 /\ {result[i].filename : i \in 1..Len(result)} = ValidDrafts(files)
                 /\ \A i \in 1..Len(result) :
                       /\ result[i].modified = files[result[i].filename].mtime
                       /\ result[i].project_id = <<"Q">>
                 /\ \A i, j \in 1..Len(result) :
                       i < j => result[i].modified >= result[j].modified

\* two drafts that parse, modified at different times, were listed from a
\* directory that also holds a text cut short
C11_Witness ==
    /\ listing.called
    /\ listing.exists
    /\ Cardinality(DOMAIN listing.files) = 3
    /\ RemoteName("cut") \in DOMAIN listing.files
    /\ Len(listing.result) = 2
    /\ listing.result[1].modified > listing.result[2].modified

\* C12: load_draft answers an unreadable file and a text that does not parse
\* with None, and a file that parses with its document; and a Load click
\* either shows "Failed to load draft" and keeps the session's document, or
\* shows success and makes the file's document the session's.
C12_LoadFailureSurfaced ==
    [][/\ \A n \in DOMAIN drafts :
            /\ load_draft(drafts, n, FALSE) = None
            /\ load_draft(drafts, n, TRUE).is_none = (n \notin ValidDrafts(drafts))
       /\ LoadDraft(IoOutcomes) =>
            \/ ui' = <<"error">> /\ data' = data
            \/ /\ ui' = <<"success">>
               /\ json_load(drafts[last'.path].text) = [ok |-> TRUE, val |-> data']]_vars

\* a Load failed after another had succeeded: the error is shown and the
\* document loaded before is still the session's
C12_Witness ==
    /\ last.op = "load_draft"
    /\ ui = <<"error">>
    /\ data.metadata.project_id = <<"Q">>
    /\ RemoteName("cut") \in DOMAIN drafts

\* C13: a Save Draft, Submit Final, Sync, Load or Delete that reports a
\* failure (an error, a warning or an uncaught exception) leaves the
\* session's document as it was.
C13_FailureKeepsDocument ==
    [][(\E i \in 1..Len(ui') : ui'[i] \in {"error", "warning", "exception"})
          => data' = data]_vars

\* a Delete whose push raised, in a session that had loaded a draft
C13_Witness ==
    /\ last.op = "delete_draft"
    /\ ui = <<"exception">>
    /\ data.metadata.project_id = <<"Q">>
    /\ data.models # <<>>

\* C14: every score of the session's document is one of 1, 2, 3, 4, 5.
C14_ScoresInRange ==
    \A k \in SectionKeys : \A a \in 1..Len(data[k]) :
        \A i \in 1..Len(data[k][a].checks) :
            data[k][a].checks[i].score \in RISK_LEVELS

\* C15: every artifact of the session's document has as many checks as its
\* section's checklist.
C15_ChecklistLength ==
    \A k \in SectionKeys : \A a \in 1..Len(data[k]) :
        Len(data[k][a].checks) = Len(SECTION_CHECKS[k])

(* ---------------------------------------------------------------------- *)
(* Properties of concurrent saves                                          *)
(* ---------------------------------------------------------------------- *)
BothClosed == \A w \in Writers : writers[w].pc = "closed"

\* C17: once two save_draft calls on one file have both finished, the file
\* holds the complete text of one of the two documents: no mixture, no
\* truncated text.
C17_LastWriteWins ==
    BothClosed => \E w \in Writers : file_units = text_units(writers[w].doc)


\* C21: in every reachable session state each entry of edit_index is a
\* position inside its section's current artifact list, so the edit form's
\* artifacts[edit_index[section_key]] never indexes past the end
C21_EditIndexValid ==
    \A section_key \in DOMAIN edit_index :
        /\ 0 <= edit_index[section_key]
        /\ edit_index[section_key] < Len(data[section_key])

\* C22: the clean-up of Submit Final for project P removes drafts only after
\* the submission's push has succeeded, and removes only drafts that were
\* saved for project P: a draft saved for another project_id, one that begins
\* with P and an underscore included, stays in place.
C22_CleanupOnlyOwnDrafts ==
    [][SubmitFinal(IoOutcomes) =>
          LET gone == DOMAIN drafts \ DOMAIN drafts'
          IN  /\ gone # {} => last'.pushes # <<>> /\ last'.pushes[1] = "ok"
              /\ \A n \in gone : ProjectOf(drafts[n]) = data.metadata.project_id]_vars

====
